---- MODULE Spec2Model ----
(***************************************************************************)
(* API-key rotation and quota tracking (ApiKeyManager), the compression    *)
(* call path (TinyPNGService.compressImage), the key routes, the upload  *)
(* route with the compression records of MemStorage, the key of the       *)
(* tinify module, and loadConfig while the config is not yet loaded.      *)
(*                                                                         *)
(* The ledger is the in-memory config object of ApiKeyManager:             *)
(*   config.tinypng.keys, .currentIndex, .rateLimits.monthly, .used        *)
(* and `disk` is the JSON file saveConfig writes.  Array indices are the   *)
(* 0-based indices of the source; keys[i+1] is the source's keys[i].       *)
(***************************************************************************)
EXTENDS Integers, Sequences, FiniteSets, TLC

\* ---- bounds of the model ------------------------------------------------
Tokens == {"A", "B", "C"}          \* the key strings that are ever used
Req == {"r1", "r2"}                \* request slots of compressImage
MaxMonthly == 2                    \* largest rateLimits.monthly drawn
MaxUsed == 2                       \* cap on a usage counter
MaxWriteFailures == 1              \* cap on the number of failing file writes
MaxStore == 2                      \* cap on the number of key-store records
MaxBatch == 3                      \* largest number of files in one upload
MaxRecords == 3                    \* cap on the number of createCompression calls

Null == "null"
PersistenceError == "PersistenceError"
ProviderErrors == {"AccountError", "ClientError", "ServerError", "ConnectionError", "Error"}

VARIABLES
    keys,          \* config.tinypng.keys
    currentIndex,  \* config.tinypng.currentIndex
    used,          \* config.tinypng.rateLimits.used (partial map token -> count)
    monthly,       \* config.tinypng.rateLimits.monthly
    disk,          \* content of the JSON file written by saveConfig
    writeFailures, \* number of writes of the JSON file that have failed
    store,         \* MemStorage.apiKeys: records of the key store
    pc,            \* position of each compressImage call
    apiKey,        \* local `apiKey` of each compressImage call
    err,           \* message class of the Error a compressImage call threw
    thrownAt,      \* the step of compressImage at which the call threw
    provCalls,     \* provider calls made by each compressImage call
    snap,          \* ledger state at the time each compressImage call began
    raised,        \* the error caught by the catch block of each compressImage call
    last,          \* the most recent ledger / dispatcher call and its result
    up,            \* locals of the POST /api/upload handler
    compressions,  \* MemStorage.compressions: id -> record
    created,       \* number of createCompression calls (ids are never reused)
    tinify,        \* the tinify module: its key, and the key each fromBuffer call went out with
    boot           \* this.config of ApiKeyManager while it is loaded, and the callers of loadConfig

ledger == <<keys, currentIndex, used, monthly>>
reqs == <<pc, apiKey, err, thrownAt, provCalls, snap, raised>>
upload == <<up, compressions, created>>
vars == <<keys, currentIndex, used, monthly, disk, writeFailures, store, pc, apiKey, err, thrownAt, provCalls, snap, raised, last, up, compressions, created, tinify, boot>>

\* ---- pure helpers ------------------------------------------------------
EmptyMap == [k \in {} |-> 0]

Min(S) == CHOOSE x \in S : \A y \in S : x <= y

\* rateLimits.used[key] || 0
Usage(u, k) == IF k \in DOMAIN u THEN u[k] ELSE 0

\* mutant: the comparison admits a key that is exactly at the ceiling
Eligible_AtCeiling(u, m, k) == Usage(u, k) <= m

\* used < rateLimits.monthly
Eligible(u, m, k) == Usage(u, k) < m

\* keys.includes(k)
Includes(ks, k) == \E i \in 1..Len(ks) : ks[i] = k

\* mutant: the membership check of addApiKey is missing
ShouldAdd_Always(ks, k) == TRUE

\* if (!config.tinypng.keys.includes(apiKey))
ShouldAdd(ks, k) == ~Includes(ks, k)

\* mutant: the scan starts one place after the cursor
KeyIndex_Skips(ks, idx, i) == (idx + i + 1) % Len(ks)

\* (currentIndex + i) % keys.length
KeyIndex(ks, idx, i) == (idx + i) % Len(ks)

\* index set on the first eligible key of the scan, -1 when the loop ends
SelectIndex(ks, idx, u, m) ==
    LET hits == {i \in 0..(Len(ks) - 1) : Eligible(u, m, ks[KeyIndex(ks, idx, i) + 1])}
    IN  IF hits = {} THEN -1 ELSE KeyIndex(ks, idx, Min(hits))

\* mutant: the cursor is written even when the scan found nothing
CursorAfterSelect_Resets(ks, idx, u, m) ==
    IF SelectIndex(ks, idx, u, m) = -1 THEN 0 ELSE SelectIndex(ks, idx, u, m)

\* config.tinypng.currentIndex after getNextAvailableKey
CursorAfterSelect(ks, idx, u, m) ==
    IF SelectIndex(ks, idx, u, m) = -1 THEN idx ELSE SelectIndex(ks, idx, u, m)

\* the value getNextAvailableKey returns when its write succeeds
SelectedKey(ks, idx, u, m) ==
    IF SelectIndex(ks, idx, u, m) = -1 THEN Null ELSE ks[SelectIndex(ks, idx, u, m) + 1]

\* mutant: the count is set to 1 instead of being incremented
RecordUsageMap_SetsOne(u, k) ==
    [x \in DOMAIN u \cup {k} |-> IF x = k THEN 1 ELSE u[x]]

\* rateLimits.used after recordUsage(k)
RecordUsageMap(u, k) ==
    [x \in DOMAIN u \cup {k} |-> IF x = k THEN Usage(u, k) + 1 ELSE u[x]]

\* keys.filter(key => key !== k)
FilterOut(ks, k) == SelectSeq(ks, LAMBDA x : x # k)

\* mutant: the usage entry of the removed key is kept
DeleteEntry_Keeps(u, k) == u

\* delete rateLimits.used[k]
DeleteEntry(u, k) == [x \in DOMAIN u \ {k} |-> u[x]]

\* mutant: the out-of-bounds reset is missing
CursorAfterRemove_NoReset(idx, newLen) == idx

\* currentIndex after removeApiKey
CursorAfterRemove(idx, newLen) == IF idx >= newLen THEN 0 ELSE idx

\* getKeyUsage(): one entry per key, in the order of keys
GetKeyUsage(ks, u, m) ==
    [i \in 1..Len(ks) |-> [key |-> ks[i], used |-> Usage(u, ks[i]), limit |-> m]]

\* the config object: keys, currentIndex, rateLimits.used, rateLimits.monthly
Mem(ks, idx, u) == [keys |-> ks, currentIndex |-> idx, used |-> u, monthly |-> monthly]

\* mutant: the file is written before the change is applied to the config
SaveConfig_Stale(ok, ks, idx, u) ==
    /\ ~ok => writeFailures < MaxWriteFailures
    /\ disk' = IF ok THEN Mem(keys, currentIndex, used) ELSE disk
    /\ writeFailures' = IF ok THEN writeFailures ELSE writeFailures + 1

\* saveConfig: the whole config is written, or the write throws
SaveConfig(ok, ks, idx, u) ==
    /\ ~ok => writeFailures < MaxWriteFailures
    /\ disk' = IF ok THEN Mem(ks, idx, u) ELSE disk
    /\ writeFailures' = IF ok THEN writeFailures ELSE writeFailures + 1

\* a call record: operation, argument, result; for recordUsage the usage
\* count of the argument before the call, for removeApiKey the cursor before
\* the call
Call(op, arg, ret, before) ==
    [op |-> op, arg |-> arg, ret |-> ret,
     before |-> IF op = "recordUsage" THEN before ELSE 0,
     cursor |-> IF op = "removeApiKey" THEN currentIndex ELSE 0]

NoSnap == [keys |-> <<>>, currentIndex |-> 0, used |-> EmptyMap, monthly |-> 0]

\* the upload handler when no request is being handled
NoUpload == [pc |-> "idle", files |-> <<>>, idx |-> 0, results |-> <<>>, id |-> 0, used |-> EmptyMap]

\* this.config is set and no caller is inside loadConfig
Booted ==
    [config |-> TRUE, lost |-> NoSnap, pc |-> [c \in Req |-> "idle"],
     ref |-> [c \in Req |-> Null], arg |-> [c \in Req |-> Null],
     recorded |-> [k \in Tokens |-> 0]]

\* ---- initial state ------------------------------------------------------
Init ==
    /\ keys = <<>>
    /\ currentIndex = 0
    /\ used = EmptyMap
    /\ monthly \in 1..MaxMonthly
    /\ disk = Mem(<<>>, 0, EmptyMap)
    /\ writeFailures = 0
    /\ store = {}
    /\ pc = [r \in Req |-> "idle"]
    /\ apiKey = [r \in Req |-> Null]
    /\ err = [r \in Req |-> Null]
    /\ thrownAt = [r \in Req |-> Null]
    /\ provCalls = [r \in Req |-> 0]
    /\ snap = [r \in Req |-> NoSnap]
    /\ raised = [r \in Req |-> Null]
    /\ up = NoUpload
    /\ compressions = EmptyMap
    /\ created = 0
    /\ tinify = [key |-> Null, by |-> [r \in Req |-> Null]]
    /\ boot = Booted
    /\ last = [op |-> "none", arg |-> Null, ret |-> Null, before |-> 0, cursor |-> 0]

\* ---- ApiKeyManager -----------------------------------------------------
GetNextAvailableKey ==
    LET key == SelectedKey(keys, currentIndex, used, monthly)
        idx == CursorAfterSelect(keys, currentIndex, used, monthly)
    IN  /\ currentIndex' = idx
        /\ UNCHANGED <<keys, used, monthly, store, tinify, boot, reqs>>
        /\ IF key = Null
           THEN /\ UNCHANGED <<disk, writeFailures>>
                /\ last' = Call("getNextAvailableKey", Null, Null, 0)
           ELSE \E ok \in BOOLEAN :
                /\ SaveConfig(ok, keys, idx, used)
                /\ last' = Call("getNextAvailableKey", Null,
                                IF ok THEN key ELSE PersistenceError, 0)

RecordUsage(k) ==
    /\ Usage(used, k) < MaxUsed
    /\ used' = RecordUsageMap(used, k)
    /\ UNCHANGED <<keys, currentIndex, monthly, store, tinify, boot, reqs>>
    /\ \E ok \in BOOLEAN :
        /\ SaveConfig(ok, keys, currentIndex, used')
        /\ last' = Call("recordUsage", k, IF ok THEN "ok" ELSE PersistenceError, Usage(used, k))

AddApiKey(k) ==
    /\ UNCHANGED <<currentIndex, monthly, store, tinify, boot, reqs>>
    /\ IF ShouldAdd(keys, k)
       THEN /\ keys' = Append(keys, k)
            /\ used' = [x \in DOMAIN used \cup {k} |-> IF x = k THEN 0 ELSE used[x]]
            /\ \E ok \in BOOLEAN :
                /\ SaveConfig(ok, keys', currentIndex, used')
                /\ last' = Call("addApiKey", k, IF ok THEN "ok" ELSE PersistenceError, Usage(used, k))
       ELSE /\ UNCHANGED <<keys, used, disk, writeFailures>>
            /\ last' = Call("addApiKey", k, "ok", Usage(used, k))

RemoveApiKey(k) ==
    /\ keys' = FilterOut(keys, k)
    /\ used' = DeleteEntry(used, k)
    /\ currentIndex' = CursorAfterRemove(currentIndex, Len(keys'))
    /\ UNCHANGED <<monthly, store, tinify, boot, reqs>>
    /\ \E ok \in BOOLEAN :
        /\ SaveConfig(ok, keys', currentIndex', used')
        /\ last' = Call("removeApiKey", k, IF ok THEN "ok" ELSE PersistenceError, Usage(used, k))

\* mutant: the reset leaves the usage map as it is
ResetMap_Keeps(u) == u

\* config.tinypng.rateLimits.used = {}
ResetMap(u) == EmptyMap

ResetMonthlyUsage ==
    /\ used' = ResetMap(used)
    /\ UNCHANGED <<keys, currentIndex, monthly, store, tinify, boot, reqs>>
    /\ \E ok \in BOOLEAN :
        /\ SaveConfig(ok, keys, currentIndex, used')
        /\ last' = Call("resetMonthlyUsage", Null, IF ok THEN "ok" ELSE PersistenceError, 0)

\* ---- TinyPNGService.compressImage ------------------------------------------
\* mutant: the null check is missing
AfterSelect_NoCheck(key) == "validate"

\* what compressImage does with the value of getNextAvailableKey
AfterSelect(key) == IF key = Null THEN "failed" ELSE "validate"

\* mutant: the ClientError branch carries the text of the ServerError branch
Classify_ClientAsServer(e) ==
    CASE e = "AccountError" -> "TinyPNG account error"
      [] e = "ClientError" -> "TinyPNG server error"
      [] e = "ServerError" -> "TinyPNG server error"
      [] e = "ConnectionError" -> "TinyPNG connection error"
      [] OTHER -> "TinyPNG compression failed"

\* the message class chosen by the catch block for a thrown error
Classify(e) ==
    CASE e = "AccountError" -> "TinyPNG account error"
      [] e = "ClientError" -> "TinyPNG client error"
      [] e = "ServerError" -> "TinyPNG server error"
      [] e = "ConnectionError" -> "TinyPNG connection error"
      [] OTHER -> "TinyPNG compression failed"

Throw(r, at, e) ==
    /\ pc' = [pc EXCEPT ![r] = "failed"]
    /\ err' = [err EXCEPT ![r] = e]
    /\ thrownAt' = [thrownAt EXCEPT ![r] = at]

\* const apiKey = await apiKeyManager.getNextAvailableKey(); if (!apiKey) throw
CompressSelect(r) ==
    LET key == SelectedKey(keys, currentIndex, used, monthly)
        idx == CursorAfterSelect(keys, currentIndex, used, monthly)
    IN  /\ pc[r] = "idle"
        /\ snap' = [snap EXCEPT ![r] = Mem(keys, currentIndex, used)]
        /\ currentIndex' = idx
        /\ UNCHANGED <<keys, used, monthly, store, tinify, boot, provCalls, raised>>
        /\ IF key = Null
           THEN /\ UNCHANGED <<disk, writeFailures>>
                /\ apiKey' = [apiKey EXCEPT ![r] = key]
                /\ IF AfterSelect(key) = "failed"
                   THEN /\ Throw(r, "select", "No available API keys")
                        /\ last' = Call("compressImage", Null, "No available API keys", 0)
                   ELSE /\ pc' = [pc EXCEPT ![r] = AfterSelect(key)]
                        /\ UNCHANGED <<err, thrownAt>>
                        /\ last' = Call("getNextAvailableKey", Null, Null, 0)
           ELSE \E ok \in BOOLEAN :
                /\ SaveConfig(ok, keys, idx, used)
                /\ IF ok
                   THEN /\ apiKey' = [apiKey EXCEPT ![r] = key]
                        /\ pc' = [pc EXCEPT ![r] = AfterSelect(key)]
                        /\ UNCHANGED <<err, thrownAt>>
                        /\ last' = Call("getNextAvailableKey", Null, key, 0)
                   ELSE /\ UNCHANGED apiKey
                        /\ Throw(r, "save", PersistenceError)
                        /\ last' = Call("compressImage", Null, PersistenceError, 0)

\* mutant: the catch block records usage before rethrowing
UsedAfterFailure_Charges(u, k) == RecordUsageMap(u, k)

\* the usage map after the catch block ran for a call that selected k:
\* the catch block only rethrows
UsedAfterFailure(u, k) == u

\* a provider call (validate or compress) of call r threw e
ProviderThrow(r, at, e) ==
    /\ Throw(r, at, Classify(e))
    /\ raised' = [raised EXCEPT ![r] = e]
    /\ used' = UsedAfterFailure(used, apiKey[r])
    /\ last' = Call("compressImage", apiKey[r], Classify(e), 0)

\* tinify.key = apiKey; await tinify.validate()
Validate(r) ==
    /\ pc[r] = "validate"
    /\ tinify' = [tinify EXCEPT !.key = apiKey[r]]
    /\ provCalls' = [provCalls EXCEPT ![r] = @ + 1]
    /\ UNCHANGED <<keys, currentIndex, monthly, disk, writeFailures, store, boot, apiKey, snap>>
    /\ \/ /\ pc' = [pc EXCEPT ![r] = "compress"]
          /\ UNCHANGED <<used, err, thrownAt, raised, last>>
       \/ \E e \in ProviderErrors : ProviderThrow(r, "validate", e)

\* await tinify.fromBuffer(buffer).toBuffer(): the request is made with the
\* key the tinify module holds when fromBuffer is called
Compress(r) ==
    /\ pc[r] = "compress"
    /\ tinify' = [tinify EXCEPT !.by[r] = tinify.key]
    /\ provCalls' = [provCalls EXCEPT ![r] = @ + 1]
    /\ UNCHANGED <<keys, currentIndex, monthly, disk, writeFailures, store, boot, apiKey, snap>>
    /\ \/ /\ pc' = [pc EXCEPT ![r] = "record"]
          /\ UNCHANGED <<used, err, thrownAt, raised, last>>
       \/ \E e \in ProviderErrors : ProviderThrow(r, "compress", e)

\* await apiKeyManager.recordUsage(apiKey); return {...}
Record(r) ==
    /\ pc[r] = "record"
    /\ Usage(used, apiKey[r]) < MaxUsed
    /\ used' = RecordUsageMap(used, apiKey[r])
    /\ UNCHANGED <<keys, currentIndex, monthly, store, tinify, boot, apiKey, provCalls, snap>>
    /\ \E ok \in BOOLEAN :
        /\ SaveConfig(ok, keys, currentIndex, used')
        /\ IF ok
           THEN /\ pc' = [pc EXCEPT ![r] = "done"]
                /\ UNCHANGED <<err, thrownAt, raised>>
                /\ last' = Call("recordUsage", apiKey[r], "ok", Usage(used, apiKey[r]))
           ELSE /\ Throw(r, "record", Classify(PersistenceError))
                /\ raised' = [raised EXCEPT ![r] = PersistenceError]
                /\ last' = Call("compressImage", apiKey[r], Classify(PersistenceError), 0)

\* the caller has received the result or the error of call r
Return(r) ==
    /\ pc[r] \in {"done", "failed"}
    /\ pc' = [pc EXCEPT ![r] = "idle"]
    /\ apiKey' = [apiKey EXCEPT ![r] = Null]
    /\ err' = [err EXCEPT ![r] = Null]
    /\ thrownAt' = [thrownAt EXCEPT ![r] = Null]
    /\ provCalls' = [provCalls EXCEPT ![r] = 0]
    /\ snap' = [snap EXCEPT ![r] = NoSnap]
    /\ raised' = [raised EXCEPT ![r] = Null]
    /\ tinify' = [tinify EXCEPT !.by[r] = Null]
    /\ UNCHANGED <<keys, currentIndex, used, monthly, disk, writeFailures, store, boot, last>>

\* ---- routes and MemStorage ------------------------------------------------------
DefaultMonthlyLimit == 500

\* monthlyLimit: insertApiKey.monthlyLimit || 500   (0 stands for an absent field)
StoredLimit(l) == IF l = 0 THEN DefaultMonthlyLimit ELSE l

\* randomUUID(): an identifier no stored record has
FreshId == Min({i \in 1..MaxStore : \A rec \in store : rec.id # i})

\* MemStorage.createApiKey
CreateApiKey(k, l) ==
    store \cup {[id |-> FreshId, key |-> k, monthlyLimit |-> StoredLimit(l), isActive |-> TRUE]}

\* mutant: the route does not look at the answer of validateApiKey
RejectsKey_Never(valid) == FALSE

\* if (!isValid) return res.status(400)
RejectsKey(valid) == ~valid

\* POST /api/api-keys with body {key: k, monthlyLimit: l}; `valid` is the
\* provider's answer to tinyPNGService.validateApiKey(k)
PostApiKey(k, l, valid) ==
    /\ Cardinality(store) < MaxStore
    /\ UNCHANGED <<currentIndex, monthly, reqs, boot>>
    /\ tinify' = [tinify EXCEPT !.key = k]
    /\ IF RejectsKey(valid)
       THEN /\ UNCHANGED <<keys, used, disk, writeFailures, store>>
            /\ last' = Call("POST /api/api-keys", k, 400, Usage(used, k))
       ELSE IF ~ShouldAdd(keys, k)
       THEN /\ UNCHANGED <<keys, used, disk, writeFailures>>
            /\ store' = CreateApiKey(k, l)
            /\ last' = Call("POST /api/api-keys", k, 201, Usage(used, k))
       ELSE /\ keys' = Append(keys, k)
            /\ used' = [x \in DOMAIN used \cup {k} |-> IF x = k THEN 0 ELSE used[x]]
            /\ \E ok \in BOOLEAN :
                /\ SaveConfig(ok, keys', currentIndex, used')
                /\ store' = IF ok THEN CreateApiKey(k, l) ELSE store
                /\ last' = Call("POST /api/api-keys", k, IF ok THEN 201 ELSE 500, Usage(used, k))

\* ---- POST /api/upload and MemStorage.compressions ------------------------------
\* the request slot of the compressImage call made by the upload handler
Up == "r1"

\* { ...compression, ...updates }
Merge(rec, updates) == [f \in DOMAIN rec |-> IF f \in DOMAIN updates THEN updates[f] ELSE rec[f]]

\* the record createCompression stores
NewCompression == [status |-> "pending", compressedSize |-> Null, errorMessage |-> Null]

\* MemStorage.createCompression: compressions.set(id, compression)
CreateCompression(cs, id) ==
    [x \in DOMAIN cs \cup {id} |-> IF x = id THEN NewCompression ELSE cs[x]]

\* MemStorage.updateCompression: undefined, and no change, when id is absent
UpdateCompression(cs, id, updates) ==
    IF id \in DOMAIN cs THEN [cs EXCEPT ![id] = Merge(cs[id], updates)] ELSE cs

\* mutant: the first update of the handler leaves the status pending
ProcessingUpdate_Pending(id) == UpdateCompression(compressions, id, [status |-> "pending"])

\* storage.updateCompression(compression.id, { status: "processing" })
ProcessingUpdate(id) == UpdateCompression(compressions, id, [status |-> "processing"])

\* mutant: the update after a successful compression leaves the status as it is
CompletedUpdate_NoStatus(id) ==
    UpdateCompression(compressions, id, [compressedSize |-> "set"])

\* storage.updateCompression(compression.id, { status: "completed", ... })
CompletedUpdate(id) ==
    UpdateCompression(compressions, id, [status |-> "completed", compressedSize |-> "set"])

\* mutant: the catch block does not store the message
FailedUpdate_NoMessage(id, e) == UpdateCompression(compressions, id, [status |-> "failed"])

\* storage.updateCompression(compression.id, { status: "failed", errorMessage: error.message, ... })
FailedUpdate(id, e) ==
    UpdateCompression(compressions, id, [status |-> "failed", errorMessage |-> e])

\* one entry of `results`; `file` is the position of the file in req.files,
\* `at` the step of compressImage that threw (not part of the response)
Result(file, status, id, error, at) ==
    [file |-> file, status |-> status, id |-> id, error |-> error, at |-> at]

\* the handler starts on req.files = batch (TRUE: the file has a buffer)
UploadBegin(batch) ==
    /\ up.pc \in {"idle", "responded"}
    /\ pc[Up] = "idle"
    /\ created + Cardinality({i \in DOMAIN batch : batch[i]}) <= MaxRecords
    /\ up' = [pc |-> "file", files |-> batch, idx |-> 1, results |-> <<>>, id |-> 0, used |-> used]
    /\ UNCHANGED <<ledger, disk, writeFailures, store, tinify, boot, reqs, last, compressions, created>>

\* for (const file of files): the buffer check and createCompression, or
\* res.json({ results }) after the last file
UploadFile ==
    /\ up.pc = "file"
    /\ UNCHANGED <<ledger, disk, writeFailures, store, tinify, boot, reqs, last>>
    /\ IF up.idx > Len(up.files)
       THEN /\ up' = [up EXCEPT !.pc = "responded"]
            /\ UNCHANGED <<compressions, created>>
       ELSE IF ~up.files[up.idx]
       THEN /\ up' = [up EXCEPT !.results = Append(@, Result(up.idx, "failed", 0, "File buffer is missing", Null)),
                                !.idx = @ + 1]
            /\ UNCHANGED <<compressions, created>>
       ELSE /\ created' = created + 1
            /\ compressions' = CreateCompression(compressions, created')
            /\ up' = [up EXCEPT !.id = created', !.pc = "processing"]

\* await storage.updateCompression(compression.id, { status: "processing" })
UploadProcessing ==
    /\ up.pc = "processing"
    /\ compressions' = ProcessingUpdate(up.id)
    /\ up' = [up EXCEPT !.pc = "compress"]
    /\ UNCHANGED <<ledger, disk, writeFailures, store, tinify, boot, reqs, last, created>>

\* compressImage returned: the record is completed and the entry pushed
UploadCompleted ==
    /\ up.pc = "compress"
    /\ pc[Up] = "done"
    /\ Return(Up)
    /\ compressions' = CompletedUpdate(up.id)
    /\ up' = [up EXCEPT !.results = Append(@, Result(up.idx, "completed", up.id, Null, Null)),
                        !.idx = @ + 1, !.pc = "file"]
    /\ UNCHANGED created

\* compressImage threw: the catch block marks the record and pushes the entry
UploadFailed ==
    /\ up.pc = "compress"
    /\ pc[Up] = "failed"
    /\ Return(Up)
    /\ compressions' = FailedUpdate(up.id, err[Up])
    /\ up' = [up EXCEPT !.results = Append(@, Result(up.idx, "failed", up.id, err[Up], thrownAt[Up])),
                        !.idx = @ + 1, !.pc = "file"]
    /\ UNCHANGED created

\* DELETE /api/compressions/:id for a stored record
DeleteCompression(id) ==
    /\ id \in DOMAIN compressions
    /\ compressions' = [x \in DOMAIN compressions \ {id} |-> compressions[x]]
    /\ UNCHANGED <<ledger, disk, writeFailures, store, tinify, boot, reqs, last, up, created>>

\* ---- PUT and DELETE /api/api-keys/:id --------------------------------------------
\* MemStorage.getApiKey(id): the records with this id (none or one)
GetApiKey(id) == {rec \in store : rec.id = id}

\* MemStorage.updateApiKey: { ...apiKey, ...updates } for the record with this id
UpdateApiKey(id, updates) ==
    {IF rec.id = id THEN Merge(rec, updates) ELSE rec : rec \in store}

\* the request bodies of PUT that are drawn
AdminUpdates == {[isActive |-> FALSE], [isActive |-> TRUE]}

\* PUT /api/api-keys/:id with body `updates`: only the key store is touched
PutApiKey(id, updates) ==
    /\ store' = UpdateApiKey(id, updates)
    /\ last' = Call("PUT /api/api-keys/:id", Null, IF GetApiKey(id) = {} THEN 404 ELSE 200, 0)
    /\ UNCHANGED <<ledger, disk, writeFailures, reqs, tinify, boot>>

\* DELETE /api/api-keys/:id: 404 when the id is unknown, otherwise
\* apiKeyManager.removeApiKey(apiKey.key) and then storage.deleteApiKey(id)
DeleteApiKeyRoute(id) ==
    /\ UNCHANGED <<monthly, reqs, tinify, boot>>
    /\ IF GetApiKey(id) = {}
       THEN /\ UNCHANGED <<keys, currentIndex, used, disk, writeFailures, store>>
            /\ last' = Call("DELETE /api/api-keys/:id", Null, 404, 0)
       ELSE \E rec \in GetApiKey(id) :
            /\ keys' = FilterOut(keys, rec.key)
            /\ used' = DeleteEntry(used, rec.key)
            /\ currentIndex' = CursorAfterRemove(currentIndex, Len(keys'))
            /\ \E ok \in BOOLEAN :
                /\ SaveConfig(ok, keys', currentIndex', used')
                /\ store' = IF ok THEN store \ {rec} ELSE store
                /\ last' = Call("DELETE /api/api-keys/:id", rec.key, IF ok THEN 200 ELSE 500, 0)

\* ---- ApiKeyManager.loadConfig while this.config is not yet set ----------------
\* the state after construction: this.config is null and the JSON file holds
\* the key list; the ledger variables hold nothing until the file is parsed
InitLoad ==
    /\ keys = <<>>
    /\ currentIndex = 0
    /\ used = EmptyMap
    /\ monthly \in 1..MaxMonthly
    /\ \E ks \in {<<"A">>, <<"A", "B">>, <<"B", "A">>} :
        disk = Mem(ks, 0, [k \in {ks[i] : i \in DOMAIN ks} |-> 0])
    /\ writeFailures = 0
    /\ store = {}
    /\ pc = [r \in Req |-> "idle"]
    /\ apiKey = [r \in Req |-> Null]
    /\ err = [r \in Req |-> Null]
    /\ thrownAt = [r \in Req |-> Null]
    /\ provCalls = [r \in Req |-> 0]
    /\ snap = [r \in Req |-> NoSnap]
    /\ raised = [r \in Req |-> Null]
    /\ up = NoUpload
    /\ compressions = EmptyMap
    /\ created = 0
    /\ tinify = [key |-> Null, by |-> [r \in Req |-> Null]]
    /\ boot = [Booted EXCEPT !.config = FALSE]
    /\ last = [op |-> "none", arg |-> Null, ret |-> Null, before |-> 0, cursor |-> 0]

\* recordUsage(k) of caller c begins: `if (this.config) return this.config`,
\* otherwise the caller starts fs.readFile
LoadConfig(c, k) ==
    /\ boot.pc[c] = "idle"
    /\ boot' = [boot EXCEPT !.arg[c] = k,
                            !.pc[c] = IF boot.config THEN "loaded" ELSE "reading",
                            !.ref[c] = IF boot.config THEN "current" ELSE Null]
    /\ UNCHANGED <<ledger, disk, writeFailures, store, reqs, last, upload, tinify>>

\* readFile resolves for caller c: this.config = JSON.parse(data).  An object
\* that was this.config before is no longer referenced by the manager; the
\* callers that got it from loadConfig still hold it.
ReadFile(c) ==
    /\ boot.pc[c] = "reading"
    /\ keys' = disk.keys
    /\ currentIndex' = disk.currentIndex
    /\ used' = disk.used
    /\ boot' = [boot EXCEPT !.config = TRUE,
                            !.lost = IF boot.config THEN Mem(keys, currentIndex, used) ELSE boot.lost,
                            !.pc[c] = "loaded",
                            !.ref = [x \in Req |-> IF x = c THEN "current"
                                                  ELSE IF boot.ref[x] = "current" THEN "lost"
                                                  ELSE boot.ref[x]]]
    /\ UNCHANGED <<monthly, disk, writeFailures, store, reqs, last, upload, tinify>>

\* the rest of recordUsage(k): the count is incremented in the object the
\* caller got from loadConfig, then saveConfig writes this.config
RecordLoaded(c) ==
    LET k == boot.arg[c]
        mine == boot.ref[c] = "current"
    IN  /\ boot.pc[c] = "loaded"
        /\ boot.recorded[k] < MaxUsed
        /\ used' = IF mine THEN RecordUsageMap(used, k) ELSE used
        /\ boot' = [boot EXCEPT !.lost = IF mine THEN boot.lost
                                        ELSE [boot.lost EXCEPT !.used = RecordUsageMap(boot.lost.used, k)],
                                !.pc[c] = "idle",
                                !.ref[c] = Null,
                                !.arg[c] = Null,
                                !.recorded[k] = @ + 1]
        /\ UNCHANGED <<keys, currentIndex, monthly, store, reqs, upload, tinify>>
        /\ \E ok \in BOOLEAN :
            /\ SaveConfig(ok, keys, currentIndex, used')
            /\ last' = Call("recordUsage", k, IF ok THEN "ok" ELSE PersistenceError, 0)

\* ---- specifications ----------------------------------------------------------
NoneInFlight == \A r \in Req : pc[r] = "idle"

\* no write of the JSON file fails in this step
WritesSucceed == writeFailures' = writeFailures

\* the ledger driven directly through its API surface, every write of the
\* JSON file succeeding
Next ==
    \/ GetNextAvailableKey /\ WritesSucceed /\ UNCHANGED upload
    \/ \E k \in Tokens : RecordUsage(k) /\ WritesSucceed /\ UNCHANGED upload
    \/ \E k \in Tokens : AddApiKey(k) /\ WritesSucceed /\ UNCHANGED upload
    \/ \E k \in Tokens : RemoveApiKey(k) /\ WritesSucceed /\ UNCHANGED upload
    \/ ResetMonthlyUsage /\ WritesSucceed /\ UNCHANGED upload

Spec == Init /\ [][Next]_vars

\* compressImage calls that do not overlap, between administrative calls
NextDispatch ==
    \/ NoneInFlight /\ \E k \in Tokens : AddApiKey(k) /\ UNCHANGED upload
    \/ NoneInFlight /\ \E k \in Tokens : RemoveApiKey(k) /\ UNCHANGED upload
    \/ NoneInFlight /\ ResetMonthlyUsage /\ UNCHANGED upload
    \/ NoneInFlight /\ \E r \in Req : CompressSelect(r) /\ UNCHANGED upload
    \/ \E r \in Req : Validate(r) /\ UNCHANGED upload
    \/ \E r \in Req : Compress(r) /\ UNCHANGED upload
    \/ \E r \in Req : Record(r) /\ UNCHANGED upload
    \/ \E r \in Req : Return(r) /\ UNCHANGED upload

SpecDispatch == Init /\ [][NextDispatch]_vars

\* the add-key route together with the ledger calls
RouteTokens == {"A", "B"}
RouteLimits == {0, 1}              \* monthlyLimit absent, or 1

NextRoutes ==
    \/ \E k \in RouteTokens, l \in RouteLimits, valid \in BOOLEAN : PostApiKey(k, l, valid) /\ UNCHANGED upload
    \/ GetNextAvailableKey /\ UNCHANGED upload
    \/ \E k \in RouteTokens : RecordUsage(k) /\ UNCHANGED upload

SpecRoutes == Init /\ [][NextRoutes]_vars

\* upload requests one at a time, their compressImage calls, the delete route
\* of compression records at any moment, keys added before the first upload
Batches == UNION {[1..n -> BOOLEAN] : n \in 1..MaxBatch}
UploadErrors == {"ServerError"}
UploadTokens == {"A"}
ThrowsUploadError == raised'[Up] \in UploadErrors \cup {Null, PersistenceError}

NextUpload ==
    \/ up.pc = "idle" /\ \E k \in UploadTokens : AddApiKey(k) /\ UNCHANGED upload
    \/ \E batch \in Batches : UploadBegin(batch)
    \/ UploadFile
    \/ UploadProcessing
    \/ up.pc = "compress" /\ CompressSelect(Up) /\ UNCHANGED upload
    \/ Validate(Up) /\ ThrowsUploadError /\ UNCHANGED upload
    \/ Compress(Up) /\ ThrowsUploadError /\ UNCHANGED upload
    \/ Record(Up) /\ UNCHANGED upload
    \/ UploadCompleted
    \/ UploadFailed
    \/ \E id \in 1..MaxRecords : DeleteCompression(id)

SpecUpload == Init /\ [][NextUpload]_vars

\* compressImage calls that overlap: a call may begin while another one is
\* between its awaits; keys are added while no call is in flight
NextConc ==
    \/ NoneInFlight /\ \E k \in RouteTokens : AddApiKey(k) /\ UNCHANGED upload
    \/ \E r \in Req : CompressSelect(r) /\ UNCHANGED upload
    \/ \E r \in Req : Validate(r) /\ UNCHANGED upload
    \/ \E r \in Req : Compress(r) /\ UNCHANGED upload
    \/ \E r \in Req : Record(r) /\ UNCHANGED upload
    \/ \E r \in Req : Return(r) /\ UNCHANGED upload

SpecConc == Init /\ [][NextConc]_vars

\* the first recordUsage calls of the process, which may overlap while the
\* config is being loaded
NextLoad ==
    \/ \E c \in Req, k \in RouteTokens : LoadConfig(c, k)
    \/ \E c \in Req : ReadFile(c)
    \/ \E c \in Req : RecordLoaded(c)

SpecLoad == InitLoad /\ [][NextLoad]_vars

\* compressImage calls one at a time, with keys removed through the ledger
\* at any moment, also while a call is between its awaits
NextInFlight ==
    \/ NoneInFlight /\ \E k \in RouteTokens : AddApiKey(k) /\ UNCHANGED upload
    \/ \E k \in RouteTokens : RemoveApiKey(k) /\ UNCHANGED upload
    \/ NoneInFlight /\ \E r \in Req : CompressSelect(r) /\ UNCHANGED upload
    \/ \E r \in Req : Validate(r) /\ UNCHANGED upload
    \/ \E r \in Req : Compress(r) /\ UNCHANGED upload
    \/ \E r \in Req : Record(r) /\ UNCHANGED upload
    \/ \E r \in Req : Return(r) /\ UNCHANGED upload

SpecInFlight == Init /\ [][NextInFlight]_vars

\* the three key routes together with selection
NextAdmin ==
    \/ \E k \in RouteTokens, l \in RouteLimits, valid \in BOOLEAN : PostApiKey(k, l, valid) /\ UNCHANGED upload
    \/ \E id \in 1..MaxStore, updates \in AdminUpdates : PutApiKey(id, updates) /\ UNCHANGED upload
    \/ \E id \in 1..MaxStore : DeleteApiKeyRoute(id) /\ UNCHANGED upload
    \/ GetNextAvailableKey /\ UNCHANGED upload

SpecAdmin == Init /\ [][NextAdmin]_vars

\* ---- properties -----------------------------------------------------------------
BelowCeiling(k) == Usage(used, k) < monthly
AllBelow == \A i \in 1..Len(keys) : BelowCeiling(keys[i])
SomeBelow == \E i \in 1..Len(keys) : BelowCeiling(keys[i])
Returned(op) == last.op = op /\ last.ret \in Tokens
SameUsage(u, v) == \A k \in Tokens : Usage(u, k) = Usage(v, k)

\* C1: with N >= 2 credentials all below the ceiling, the getNextAvailableKey
\* call that directly follows a successful getNextAvailableKey call returns a
\* different credential, the one after the credential just returned in
\* rotation order (so N consecutive calls return N pairwise distinct
\* credentials).  Stated on the state right after the first call: the value
\* the next call returns is SelectedKey of that state.
C1_RoundRobinOrder ==
    (Returned("getNextAvailableKey") /\ Len(keys) >= 2 /\ AllBelow)
    => (/\ SelectedKey(keys, currentIndex, used, monthly) # last.ret
        /\ SelectedKey(keys, currentIndex, used, monthly)
             = keys[((currentIndex + 1) % Len(keys)) + 1])

FailedAtProvider(r) == pc[r] = "failed" /\ thrownAt[r] \in {"validate", "compress"}

\* C2: when compressImage has failed at validation or compression with the
\* selected credential K and some other registered credential is below the
\* ceiling, the next compressImage call (whose selection is SelectedKey of
\* the state the failed call leaves) selects a credential different from K.
C2_RetrySelectsOther ==
    \A r \in Req :
        (/\ FailedAtProvider(r)
         /\ \E i \in 1..Len(keys) : keys[i] # apiKey[r] /\ BelowCeiling(keys[i]))
        => SelectedKey(keys, currentIndex, used, monthly) # apiKey[r]

\* C3: getNextAvailableKey never returns a credential whose usage is at or
\* above rateLimits.monthly (what it returns is registered and below the
\* ceiling), and it reports none-available only when no registered
\* credential is below the ceiling.
C3_NeverReturnsExhausted ==
    last.op = "getNextAvailableKey"
    => /\ last.ret \in Tokens => (Includes(keys, last.ret) /\ Usage(used, last.ret) < monthly)
       /\ SomeBelow => last.ret # Null

\* C3 witness: a key behind an exhausted first key was returned
C3_Witness ==
    /\ Returned("getNextAvailableKey")
    /\ Len(keys) >= 2
    /\ Usage(used, keys[1]) >= monthly
    /\ last.ret # keys[1]

\* C4: when every registered credential is at or above the ceiling (also when
\* no credential is registered) getNextAvailableKey returns null and leaves
\* the cursor, the key sequence and all usage counts unchanged.
C4_NoneAvailableNoMutation ==
    [][(GetNextAvailableKey /\ ~SomeBelow)
       => (/\ last'.op = "getNextAvailableKey"
           /\ last'.ret = Null
           /\ UNCHANGED <<keys, currentIndex, used, disk>>)]_vars

\* C4 witness: null was returned with registered keys and the cursor not at 0
C4_Witness ==
    /\ last.op = "getNextAvailableKey"
    /\ last.ret = Null
    /\ Len(keys) >= 2
    /\ currentIndex >= 1
    /\ ~SomeBelow

\* C5 (as claimed): whenever compressImage has ended in failure, whatever the
\* error, no usage count and no registered credential has changed since the
\* call began.
C5_AnyFailureChargesNothing ==
    \A r \in Req :
        pc[r] = "failed" => (SameUsage(used, snap[r].used) /\ keys = snap[r].keys)

\* C5 (amended): whenever compressImage has ended in failure because no
\* credential was available, the selection's write failed, or the provider's
\* validation or compression failed, no usage count and no registered
\* credential has changed, and the selected credential is still registered
\* and below the ceiling.
C5_ProviderFailureChargesNothing ==
    \A r \in Req :
        (pc[r] = "failed" /\ thrownAt[r] # "record")
        => /\ SameUsage(used, snap[r].used)
           /\ keys = snap[r].keys
           /\ apiKey[r] \in Tokens => (Includes(keys, apiKey[r]) /\ BelowCeiling(apiKey[r]))

\* C5 witness: a call failed at the provider's compression with a credential
\* that already has usage
C5_Witness ==
    \E r \in Req :
        /\ pc[r] = "failed"
        /\ thrownAt[r] = "compress"
        /\ Usage(used, apiKey[r]) >= 1

C7_QuotaExhaustedNoProviderCall ==
    \A r \in Req :
        (pc[r] # "idle" /\ apiKey[r] = Null /\ thrownAt[r] # "save")
        => /\ pc[r] = "failed"
           /\ thrownAt[r] = "select"
           /\ err[r] = "No available API keys"
           /\ provCalls[r] = 0

\* C7 witness: a call failed for lack of credentials although keys are registered
C7_Witness ==
    \E r \in Req :
        /\ pc[r] = "failed"
        /\ thrownAt[r] = "select"
        /\ Len(keys) >= 1

\* C8: every credential is bound by the monthly limit it was registered
\* with: getKeyUsage reports that limit for it, and it is eligible for
\* selection exactly while its usage is below that limit.
C8_OwnCeiling ==
    \A rec \in store : \A i \in 1..Len(keys) :
        keys[i] = rec.key
        => /\ GetKeyUsage(keys, used, monthly)[i].limit = rec.monthlyLimit
           /\ Eligible(used, monthly, keys[i]) <=> Usage(used, keys[i]) < rec.monthlyLimit

\* C9: the rotation cursor is a valid index into the key sequence, or the
\* sequence is empty.
C9_CursorValid == Len(keys) = 0 \/ (0 <= currentIndex /\ currentIndex < Len(keys))

\* C9 witness: removeApiKey shortened the sequence below the cursor and keys remain
C9_Witness ==
    /\ last.op = "removeApiKey"
    /\ Len(keys) >= 1
    /\ last.cursor >= Len(keys)

\* C10: recordUsage(token) increases the usage of token by exactly 1 (from 0
\* when it had no count), leaves every other usage count, the key sequence
\* and the cursor unchanged, and a second call right after the first leaves
\* the count 2 above what it was before the first.
C10_RecordUsageAddsOne ==
    [][\A k \in Tokens :
        RecordUsage(k)
        => /\ Usage(used', k) = Usage(used, k) + 1
           /\ \A o \in Tokens \ {k} : Usage(used', o) = Usage(used, o)
           /\ UNCHANGED <<keys, currentIndex, monthly>>
           /\ (last.op = "recordUsage" /\ last.arg = k) => Usage(used', k) = last.before + 2]_vars

\* C10 witness: recordUsage was called twice in a row for a token
C10_Witness ==
    /\ last.op = "recordUsage"
    /\ last.before = 1
    /\ Usage(used, last.arg) = 2
    /\ \E o \in Tokens \ {last.arg} : Usage(used, o) = 1

\* k is an element of the rotation sequence ks
Registered(ks, k) == \E i \in DOMAIN ks : ks[i] = k

\* C11: in every step that is not a monthly reset, for every credential that
\* is registered before and after the step, the usage count is never negative
\* and either stays the same or grows by exactly 1, and it grows only in a
\* recordUsage call for that credential.
C11_UsageMonotone ==
    [][\A k \in Tokens :
        (Registered(keys, k) /\ Registered(keys', k) /\ last'.op # "resetMonthlyUsage")
        => /\ Usage(used, k) >= 0
           /\ Usage(used', k) >= 0
           /\ \/ Usage(used', k) = Usage(used, k)
              \/ /\ Usage(used', k) = Usage(used, k) + 1
                 /\ last'.op = "recordUsage"
                 /\ last'.arg = k]_vars

\* C11 witness: recordUsage has just raised a registered credential from 1
\* to 2 while another credential is registered with usage 1
C11_Witness ==
    /\ last.op = "recordUsage"
    /\ Registered(keys, last.arg)
    /\ last.before = 1
    /\ Usage(used, last.arg) = 2
    /\ \E j \in Tokens \ {last.arg} : Registered(keys, j) /\ Usage(used, j) = 1

\* C16: as long as no write of the file has failed, the file holds exactly
\* the in-memory config after every ledger operation: the same keys in the
\* same order, the same usage entries, the same ceiling and the same cursor.
C16_DurableEqualsMemory ==
    writeFailures = 0
    => /\ disk.keys = keys
       /\ disk.currentIndex = currentIndex
       /\ disk.monthly = monthly
       /\ DOMAIN disk.used = DOMAIN used
       /\ \A k \in DOMAIN used : disk.used[k] = used[k]

\* C16 witness: a removeApiKey call has returned after keys were added, used
\* and selected, and the file holds a non-empty sequence, a usage count and
\* a cursor other than 0
C16_Witness ==
    /\ last.op = "removeApiKey"
    /\ last.ret = "ok"
    /\ Len(disk.keys) >= 2
    /\ disk.currentIndex >= 1
    /\ \E k \in DOMAIN disk.used : disk.used[k] >= 1

\* position of k in the sequence ks (0 when absent)
PosIn(ks, k) == IF Registered(ks, k) THEN CHOOSE i \in DOMAIN ks : ks[i] = k ELSE 0

\* C18: removeApiKey(k) leaves a sequence that does not contain k and a usage
\* map without an entry for k; every other key keeps its place relative to
\* the others and its usage entry; the cursor becomes 0 exactly when the old
\* cursor is >= the new length and is otherwise unchanged; the next
\* getNextAvailableKey does not return k, and getNextAvailableKey never
\* returns a key that is not in the sequence.
C18_RemovePurges ==
    /\ [](\A k \in Tokens :
            (last.op = "getNextAvailableKey" /\ last.ret = k) => Registered(keys, k))
    /\ [][\A k \in Tokens :
            (last'.op = "removeApiKey" /\ last'.arg = k)
            => /\ ~Registered(keys', k)
               /\ k \notin DOMAIN used'
               /\ \A j \in Tokens \ {k} :
                    /\ Registered(keys', j) <=> Registered(keys, j)
                    /\ (j \in DOMAIN used') <=> (j \in DOMAIN used)
                    /\ Usage(used', j) = Usage(used, j)
               /\ Len(keys') = Cardinality({i \in DOMAIN keys : keys[i] # k})
               /\ \A i, j \in Tokens \ {k} :
                    (Registered(keys, i) /\ Registered(keys, j))
                    => (PosIn(keys', i) < PosIn(keys', j) <=> PosIn(keys, i) < PosIn(keys, j))
               /\ currentIndex >= Len(keys') => currentIndex' = 0
               /\ currentIndex < Len(keys') => currentIndex' = currentIndex
               /\ SelectedKey(keys', currentIndex', used', monthly) # k]_vars

\* C18 witness: one key of three was removed while the cursor pointed at the
\* last key, so the cursor was reset, and another key keeps its usage
C18_Witness ==
    /\ last.op = "removeApiKey"
    /\ last.before >= 0
    /\ ~Registered(keys, last.arg)
    /\ Len(keys) = 2
    /\ last.cursor = 2
    /\ currentIndex = 0
    /\ \E k \in DOMAIN used : used[k] >= 1

\* C19: addApiKey(k) for a key that is not in the sequence appends it at the
\* end with usage 0 and leaves the cursor and every other usage entry as they
\* were; for a key that is in the sequence it changes neither the sequence,
\* the usage map, the cursor nor the file; and the sequence never holds the
\* same key twice.
C19_AddAppendsOnce ==
    /\ [](\A i, j \in DOMAIN keys : keys[i] = keys[j] => i = j)
    /\ [][\A k \in Tokens :
            (last'.op = "addApiKey" /\ last'.arg = k)
            => /\ currentIndex' = currentIndex
               /\ \A j \in Tokens \ {k} :
                    /\ (j \in DOMAIN used') <=> (j \in DOMAIN used)
                    /\ Usage(used', j) = Usage(used, j)
               /\ ~Registered(keys, k)
                    => /\ keys' = Append(keys, k)
                       /\ k \in DOMAIN used'
                       /\ used'[k] = 0
               /\ Registered(keys, k)
                    => /\ keys' = keys
                       /\ used' = used
                       /\ disk' = disk]_vars

\* C19 witness: addApiKey was just called for a key that is in the sequence
\* with usage 2, and the sequence holds all three keys
C19_Witness ==
    /\ last.op = "addApiKey"
    /\ Usage(used, last.arg) = 2
    /\ Registered(keys, last.arg)
    /\ Len(keys) = 3

\* C17: a compressImage call that failed at validation or at compression
\* caught one of the provider's errors and threw the error of the matching
\* class: account, client, server or connection for the four provider
\* classes and the generic compression failure for anything else, including
\* an error of recordUsage; a caught error always ends the call in failure,
\* after exactly one provider call when validation threw and exactly two
\* when compression threw, and no call makes more than two provider calls.
C17_ClassifiedNotRetried ==
    \A r \in Req :
        /\ provCalls[r] <= 2
        /\ raised[r] # Null => pc[r] = "failed"
        /\ (pc[r] = "failed" /\ thrownAt[r] \in {"validate", "compress"})
            => /\ raised[r] \in ProviderErrors
               /\ provCalls[r] = (IF thrownAt[r] = "validate" THEN 1 ELSE 2)
        /\ (pc[r] = "failed" /\ thrownAt[r] \in {"validate", "compress", "record"})
            => /\ raised[r] = "AccountError" => err[r] = "TinyPNG account error"
               /\ raised[r] = "ClientError" => err[r] = "TinyPNG client error"
               /\ raised[r] = "ServerError" => err[r] = "TinyPNG server error"
               /\ raised[r] = "ConnectionError" => err[r] = "TinyPNG connection error"
               /\ raised[r] \notin {"AccountError", "ClientError", "ServerError", "ConnectionError"}
                    => err[r] = "TinyPNG compression failed"

\* C17 witness: validation threw a ClientError and the call failed with the
\* client class after one provider call, the credential's usage unchanged
C17_Witness ==
    \E r \in Req :
        /\ pc[r] = "failed"
        /\ thrownAt[r] = "validate"
        /\ raised[r] = "ClientError"
        /\ err[r] = "TinyPNG client error"
        /\ provCalls[r] = 1
        /\ Usage(used, apiKey[r]) = Usage(snap[r].used, apiKey[r])

Forward == {<<"pending", "processing">>, <<"processing", "completed">>, <<"processing", "failed">>}

\* a step in which every record that appears is pending and every record
\* that stays stored keeps its status or moves along Forward
ForwardStep ==
    /\ \A id \in DOMAIN compressions' \ DOMAIN compressions :
        compressions'[id].status = "pending"
    /\ \A id \in DOMAIN compressions' \cap DOMAIN compressions :
        \/ compressions'[id].status = compressions[id].status
        \/ <<compressions[id].status, compressions'[id].status>> \in Forward

\* C12: every stored compression record has one of the four statuses; a
\* record that appears is pending; and in every step the status of a record
\* that stays stored is unchanged or moves pending -> processing,
\* processing -> completed or processing -> failed.
C12_StatusForward ==
    /\ [](\A id \in DOMAIN compressions :
            compressions[id].status \in {"pending", "processing", "completed", "failed"})
    /\ [][ForwardStep]_vars

\* C12 witness: one record is completed, one is failed and a third one is
\* being processed
C12_Witness ==
    \E a, b, c \in DOMAIN compressions :
        /\ compressions[a].status = "completed"
        /\ compressions[b].status = "failed"
        /\ compressions[c].status = "processing"

\* the entries of `results` that belong to a compression record
Attempts == {i \in DOMAIN up.results : up.results[i].id # 0}

\* C13 (as claimed): every failed entry of an attempted file has a stored
\* record with status failed and a non-empty error message, and once the
\* handler has responded no record of the batch is pending or processing.
C13_FailedAttemptStored ==
    /\ \A i \in Attempts :
        up.results[i].status = "failed"
        => /\ up.results[i].id \in DOMAIN compressions
           /\ compressions[up.results[i].id].status = "failed"
           /\ compressions[up.results[i].id].errorMessage \notin {Null, ""}
    /\ up.pc = "responded"
        => \A i \in Attempts :
            up.results[i].id \in DOMAIN compressions
            => compressions[up.results[i].id].status \in {"completed", "failed"}

\* C13 (amended): every failed entry of an attempted file has a stored record
\* with status failed and a non-empty error message unless the record has
\* been deleted through DELETE /api/compressions/:id, and once the handler
\* has responded no stored record of the batch is pending or processing.
C13_FailedAttemptStoredUnlessDeleted ==
    /\ \A i \in Attempts :
        up.results[i].status = "failed"
        => \/ /\ up.results[i].id \in DOMAIN compressions
              /\ compressions[up.results[i].id].status = "failed"
              /\ compressions[up.results[i].id].errorMessage \notin {Null, ""}
           \/ /\ up.results[i].id \in 1..created
              /\ up.results[i].id \notin DOMAIN compressions
    /\ up.pc = "responded"
        => \A i \in Attempts :
            up.results[i].id \in DOMAIN compressions
            => compressions[up.results[i].id].status \in {"completed", "failed"}

\* C13 witness: the handler has responded, one file failed on a server error
\* and its record is stored as failed with that message
C13_Witness ==
    /\ up.pc = "responded"
    /\ \E i \in Attempts :
        /\ up.results[i].status = "failed"
        /\ up.results[i].id \in DOMAIN compressions
        /\ compressions[up.results[i].id].status = "failed"
        /\ compressions[up.results[i].id].errorMessage = "TinyPNG server error"

\* entries of the response with a given status
WithStatus(st) == {i \in DOMAIN up.results : up.results[i].status = st}

\* usage increments of all credentials since the handler began
Increments ==
    (Usage(used, "A") + Usage(used, "B") + Usage(used, "C"))
    - (Usage(up.used, "A") + Usage(up.used, "B") + Usage(up.used, "C"))

\* the response holds one entry per file, in file order, each completed or
\* failed, and every file that has a buffer was given a compression record
OneEntryPerFile ==
    /\ Len(up.results) = Len(up.files)
    /\ \A i \in DOMAIN up.results :
        /\ up.results[i].file = i
        /\ up.results[i].status \in {"completed", "failed"}
        /\ up.files[i] => up.results[i].id # 0
        /\ up.results[i].status = "completed" => up.files[i]

\* C14 (as claimed): when the handler has responded, the response holds one
\* entry per file in file order, every file was attempted whatever happened
\* to the files before it, and the number of usage increments since the
\* handler began equals the number of completed entries.
C14_IncrementsEqualCompleted ==
    up.pc = "responded"
    => /\ OneEntryPerFile
       /\ Increments = Cardinality(WithStatus("completed"))

\* C14 (amended): as claimed, except that the number of usage increments
\* equals the number of completed entries plus the number of entries that
\* failed because the write of recordUsage threw after the provider had
\* compressed the file.
C14_IncrementsEqualCompressed ==
    up.pc = "responded"
    => /\ OneEntryPerFile
       /\ Increments = Cardinality(WithStatus("completed"))
                       + Cardinality({i \in WithStatus("failed") : up.results[i].at = "record"})

\* C14 witness: three files, the second failed on a server error, the
\* response is completed, failed, completed and usage grew by 2
C14_Witness ==
    /\ up.pc = "responded"
    /\ Len(up.results) = 3
    /\ up.results[1].status = "completed"
    /\ up.results[2].status = "failed"
    /\ up.results[2].error = "TinyPNG server error"
    /\ up.results[3].status = "completed"
    /\ Increments = 2

\* the recordUsage step of call r has raised its credential above the ceiling
Overshoots(r) ==
    /\ pc[r] = "record"
    /\ pc'[r] # "record"
    /\ Usage(used', apiKey[r]) > monthly

\* C15: overlapping compressImage calls can push a credential above the
\* ceiling (the witness), and only in this way: a recordUsage step that
\* takes the usage above the ceiling belongs to a call that selected the
\* credential while its usage was below the ceiling, after which another
\* call recorded usage on the same credential; the excess is never more
\* than the number of other calls in flight.
C15_OvershootOnlyByOverlap ==
    /\ [](\A k \in Tokens : Usage(used, k) <= monthly + Cardinality(Req) - 1)
    /\ [][\A r \in Req :
            Overshoots(r)
            => /\ Usage(snap[r].used, apiKey[r]) < monthly
               /\ Usage(used, apiKey[r]) > Usage(snap[r].used, apiKey[r])
               /\ Usage(used', apiKey[r]) = Usage(used, apiKey[r]) + 1]_vars

\* C15 witness: two calls selected the same credential when its usage was
\* ceiling - 1, both have returned successfully, and its usage is ceiling + 1
C15_Witness ==
    \E r1, r2 \in Req :
        /\ r1 # r2
        /\ pc[r1] = "done"
        /\ pc[r2] = "done"
        /\ apiKey[r1] = apiKey[r2]
        /\ Usage(snap[r1].used, apiKey[r1]) = monthly - 1
        /\ Usage(snap[r2].used, apiKey[r2]) = monthly - 1
        /\ Usage(used, apiKey[r1]) = monthly + 1
        /\ Usage(used, apiKey[r1]) > monthly

\* the key at offset i of the scan that starts at the cursor
ScanKey(i) == keys[((currentIndex + i) % Len(keys)) + 1]

C24_ResetClearsUsage ==
    /\ [][last'.op = "resetMonthlyUsage"
            => /\ \A k \in Tokens : Usage(used', k) = 0
               /\ \A i \in DOMAIN keys' : Usage(used', keys'[i]) < monthly'
               /\ keys' = keys
               /\ monthly' = monthly
               /\ currentIndex' = currentIndex]_vars
    /\ [][(\E k \in Tokens : /\ Registered(keys, k)
                              /\ Registered(keys', k)
                              /\ Usage(used', k) < Usage(used, k))
            => last'.op = "resetMonthlyUsage"]_vars

\* C24 witness: resetMonthlyUsage was just called with three keys registered,
\* the cursor on the last one, and no key has usage
C24_Witness ==
    /\ last.op = "resetMonthlyUsage"
    /\ Len(keys) = 3
    /\ currentIndex = 2
    /\ \A k \in Tokens : Usage(used, k) = 0
    /\ SelectedKey(keys, currentIndex, used, monthly) = keys[3]

\* C25: while compressImage calls do not overlap and usage is recorded only
\* by compressImage, the usage of every registered key is at most the
\* ceiling.
C25_SequentialWithinCeiling ==
    \A i \in DOMAIN keys : Usage(used, keys[i]) <= monthly

\* C25 witness: a call has just returned successfully and left its key
\* exactly at the ceiling, a ceiling of more than one call
C25_Witness ==
    \E r \in Req :
        /\ pc[r] = "done"
        /\ Registered(keys, apiKey[r])
        /\ monthly >= 2
        /\ Usage(used, apiKey[r]) = monthly

\* the file holds exactly the in-memory config
InSync ==
    /\ disk.keys = keys
    /\ disk.currentIndex = currentIndex
    /\ disk.monthly = monthly
    /\ DOMAIN disk.used = DOMAIN used
    /\ \A k \in DOMAIN used : disk.used[k] = used[k]

\* a step in which a write of the file throws: the file is unchanged, the
\* caller gets the error, and the change the operation made stays in memory
FailedWriteStep ==
    /\ disk' = disk
    /\ last'.ret \in {PersistenceError, "TinyPNG compression failed"}
    /\ last'.op = "addApiKey"
        => (keys' = Append(keys, last'.arg) /\ Usage(used', last'.arg) = 0)
    /\ last'.op = "removeApiKey"
        => (~Registered(keys', last'.arg) /\ last'.arg \notin DOMAIN used')
    /\ last'.op = "resetMonthlyUsage" => used' = EmptyMap
    /\ (last'.op = "compressImage" /\ last'.ret = PersistenceError)
        => (currentIndex' + 1 \in DOMAIN keys /\ Usage(used, keys[currentIndex' + 1]) < monthly)
    /\ (last'.op = "compressImage" /\ last'.ret = "TinyPNG compression failed")
        => Usage(used', last'.arg) = Usage(used, last'.arg) + 1
    /\ (InSync /\ <<keys', currentIndex', used'>> # <<keys, currentIndex, used>>) => ~InSync'

C22_OneFileAtATime ==
    /\ pc[Up] # "idle" => up.pc = "compress"
    /\ Len(up.results) = (IF up.pc = "idle" THEN 0 ELSE up.idx - 1)
    /\ \A i \in Attempts :
        up.results[i].id \in DOMAIN compressions
        => compressions[up.results[i].id].status \in {"completed", "failed"}
    /\ Cardinality({id \in DOMAIN compressions :
                        compressions[id].status \in {"pending", "processing"}}) <= 1
    /\ \A id \in DOMAIN compressions :
        compressions[id].status \in {"pending", "processing"}
        => (id = up.id /\ up.pc \in {"processing", "compress"})

\* C22 witness: the third file of a batch is being compressed while the
\* records of the first two are completed and failed
C22_Witness ==
    /\ up.pc = "compress"
    /\ pc[Up] = "compress"
    /\ up.idx = 3
    /\ up.id \in DOMAIN compressions
    /\ compressions[up.id].status = "processing"
    /\ \E i, j \in Attempts :
        /\ up.results[i].id \in DOMAIN compressions
        /\ up.results[j].id \in DOMAIN compressions
        /\ compressions[up.results[i].id].status = "completed"
        /\ compressions[up.results[j].id].status = "failed"

\* C26: the compression request of every call that is about to record usage,
\* or has recorded it, went out with the key the call selected, which is the
\* key its usage is recorded against.
C26_ChargedKeyIsUsedKey ==
    \A r \in Req :
        pc[r] \in {"record", "done"} => tinify.by[r] = apiKey[r]

\* C27: once the config is loaded, the usage count of every key in
\* this.config is the number of recordUsage calls made for it since the
\* process started (the file starts with all counts at 0), and when no write
\* has failed the file holds the same counts.
C27_SingleLedgerState ==
    boot.config
    => \A k \in Tokens :
        /\ Usage(used, k) = boot.recorded[k]
        /\ (writeFailures = 0 /\ \A c \in Req : boot.pc[c] # "reading")
            => Usage(disk.used, k) = boot.recorded[k]

\* C28: every token that has an entry in the usage map is an element of the
\* rotation sequence.
C28_UsageOnlyForRegistered ==
    \A k \in DOMAIN used : Registered(keys, k)

\* C29: the key store holds at most one record per token, and a token has a
\* record in the key store exactly when it is in the rotation sequence.
C29_StoreAgreesWithLedger ==
    /\ \A a, b \in store : a.key = b.key => a.id = b.id
    /\ \A k \in Tokens : (\E rec \in store : rec.key = k) <=> Registered(keys, k)

\* C30: the key a getNextAvailableKey call has just returned has no record in
\* the key store whose active flag is false.
C30_InactiveNeverSelected ==
    (last.op = "getNextAvailableKey" /\ last.ret \in Tokens)
    => \A rec \in store : rec.key = last.ret => rec.isActive
====
